---- MODULE Spec2Model ----
(***************************************************************************)
(* Model of the stratux cockpit audio recorder (main/audio.go): the        *)
(* Capture Supervisor (initAudio), the Recording Session (initPortAudio),  *)
(* the capture callback, the Read Loop (streamer.readLoop), the Fan-out    *)
(* Registry (streamer.addClient / delClient / send) and the Stream         *)
(* Delivery Handler (handleAudioStream).                                   *)
(*                                                                         *)
(* Data abstraction: one chunk is ReadBuff bytes of encoded audio and is   *)
(* represented by its sequence number within its Session (1, 2, 3, ...).   *)
(* One capture callback makes the encoder emit one chunk.  The live feed   *)
(* is io.Pipe(): it has no buffer, a Write returns only once a Read has    *)
(* taken the bytes.                                                        *)
(***************************************************************************)
EXTENDS Integers, Sequences, FiniteSets, TLC

\* ---------------------------------------------------------------- bounds
MaxSessions == 2   \* Sessions the Supervisor may spawn in one run
MaxHandlers == 2   \* stream connections accepted in one run
MaxChunks   == 3   \* capture callbacks in one run
MaxSamples  == 3   \* samples in a buffer handed to loudness()
QueueSize   == 2   \* audioStreamer.QueueSize (10 in the source, scaled down)

Sessions == 1..MaxSessions
Handlers == 1..MaxHandlers
Ids      == 1..MaxHandlers     \* identities a streamer can hand out
NoFile   == 0                  \* AudioRecordingFile = ""
NilStreamer == 0               \* audioStreamer = nil

\* PCM buffers the capture device may deliver
SampleBuffers == { <<32767>>, <<0, 0>> }

\* int16 samples: both ends of the range, zero and its neighbours
Samples == { -32768, -1, 0, 1, 32767 }

\* the buffers loudness() is applied to
MeterBuffers == UNION { [1..n -> Samples] : n \in 1..MaxSamples }

VARIABLES
  AudioRecordingEnabled,    \* globalSettings.AudioRecordingEnabled
  AudioRecordingFile,       \* globalStatus.AudioRecordingFile (NoFile or the Session that named it)
  AudioRecordingLoundness,  \* globalStatus.AudioRecordingLoundness
  audioStreamer,            \* the global *streamer (NilStreamer or the Session that made it)
  sessPc,                   \* position of each initPortAudio goroutine
  defers,                   \* its stack of deferred calls, top first
  paInit,                   \* portaudio library initialisation count
  mp3File,                  \* "none" | "open" | "nil" (os.Create failed) | "closed"
  pcmWriter,                \* "none" | "open" | "fed" (PCM written) | "closed"
  stream,                   \* "none" | "open" | "started" | "closed"
  pipe,                     \* TRUE while the capture callback is blocked in mp3PipeWriter.Write
  produced,                 \* capture callbacks made so far
  pcm,                      \* the buffer of the loudness() call under observation (<<>> if none)
  rlPc,                     \* readLoop: "none" | "check" | "read" | "iter" (in send) | "done" | "panic"
  buffer,                   \* readLoop's buffer: the chunk last read (its position in the stream)
  todo,                     \* clients send() has still to visit while it holds the RLock
  stState,                  \* streamer: "none" | "new" (clients map nil) | "init"
  clients,                  \* streamer.clients: the identities in the map
  sid,                      \* streamer.id
  chans,                    \* chans[s][id]: the channel streamer s made for identity id
  hPc,                      \* position of each handleAudioStream goroutine
  hSt,                      \* streamer the handler subscribed to
  hId,                      \* identity addClient returned
  hDel,                     \* streamer bound by `defer audioStreamer.delClient(id)`
  hFrom,                    \* last chunk broadcast before the handler subscribed
  lastRecv,                 \* last chunk the handler dequeued
  gone                      \* connections whose network peer has disconnected

statusVars == <<AudioRecordingEnabled, AudioRecordingFile, AudioRecordingLoundness>>
sessVars   == <<sessPc, defers, paInit, mp3File, pcmWriter, stream>>
cbVars     == <<pipe, produced, pcm>>
rlVars     == <<rlPc, buffer, todo>>
regVars    == <<stState, clients, sid, chans>>
hVars      == <<hPc, hSt, hId, hDel, hFrom, lastRecv, gone>>
vars == <<statusVars, audioStreamer, sessVars, cbVars, rlVars, regVars, hVars>>

\* ------------------------------------------------------------- loudness
RECURSIVE MaxRaw(_, _, _)
\* the loop of loudness(): amplitude after samples i..Len(b), given amplitude amp
MaxRaw(b, i, amp) ==
  IF i > Len(b) THEN amp
  ELSE MaxRaw(b, i + 1, IF i = 1 \/ b[i] > amp THEN b[i] ELSE amp)

\* a meter that selects the greatest absolute magnitude
AmplitudeAbs(b) ==
  LET Abs(x) == IF x < 0 THEN -x ELSE x
  IN  CHOOSE m \in {Abs(b[k]) : k \in 1..Len(b)} : \A k \in 1..Len(b) : Abs(b[k]) <= m

\* the amplitude loudness() selects
Amplitude(b) == MaxRaw(b, 1, 0)

\* float32(20 * math.Log10(float64(amplitude) / 32767.0)), by the class of the result
Decibel(amp) ==
  IF amp = 32767 THEN "0"
  ELSE IF amp = 0 THEN "-Inf"
  ELSE IF amp < 0 THEN "NaN"
  ELSE "negative"

loudness(b) == Decibel(Amplitude(b))

ZeroLoudness == "0"

\* make(chan []byte, s.QueueSize); full records that a send() found the buffer full
NewChan == [buf |-> <<>>, closed |-> FALSE, full |-> FALSE]

Init ==
  /\ AudioRecordingEnabled \in BOOLEAN
  /\ AudioRecordingFile = NoFile
  /\ AudioRecordingLoundness = ZeroLoudness
  /\ audioStreamer = NilStreamer
  /\ sessPc = [s \in Sessions |-> "idle"]
  /\ defers = [s \in Sessions |-> <<>>]
  /\ paInit = 0
  /\ mp3File = [s \in Sessions |-> "none"]
  /\ pcmWriter = [s \in Sessions |-> "none"]
  /\ stream = [s \in Sessions |-> "none"]
  /\ pipe = [s \in Sessions |-> FALSE]
  /\ produced = 0
  /\ pcm = <<>>
  /\ rlPc = [s \in Sessions |-> "none"]
  /\ buffer = [s \in Sessions |-> 0]
  /\ todo = [s \in Sessions |-> {}]
  /\ stState = [s \in Sessions |-> "none"]
  /\ clients = [s \in Sessions |-> {}]
  /\ sid = [s \in Sessions |-> 0]
  /\ chans = [s \in Sessions |-> [i \in Ids |-> NewChan]]
  /\ hPc = [h \in Handlers |-> "idle"]
  /\ hSt = [h \in Handlers |-> 0]
  /\ hId = [h \in Handlers |-> 0]
  /\ hDel = [h \in Handlers |-> 0]
  /\ hFrom = [h \in Handlers |-> 0]
  /\ lastRecv = [h \in Handlers |-> 0]
  /\ gone = {}

\* ----------------------------------------------- configuration collaborator
\* the settings handler flips globalSettings.AudioRecordingEnabled
SetRecordingEnabled ==
  /\ AudioRecordingEnabled' = ~AudioRecordingEnabled
  /\ UNCHANGED <<AudioRecordingFile, AudioRecordingLoundness, audioStreamer,
                 sessVars, cbVars, rlVars, regVars, hVars>>

\* ------------------------------------------------------ Capture Supervisor
\* a tick that does not look at the status file name
EnabledOnly == AudioRecordingEnabled

\* the condition of initAudio's tick
NotRecording == AudioRecordingEnabled /\ AudioRecordingFile = NoFile

\* one tick of initAudio that finds the condition true: go initPortAudio()
initAudio ==
  /\ NotRecording
  /\ \E s \in Sessions :
       /\ sessPc[s] = "idle"
       /\ \A r \in Sessions : r < s => sessPc[r] # "idle"
       /\ sessPc' = [sessPc EXCEPT ![s] = "Initialize"]
  /\ UNCHANGED <<statusVars, audioStreamer, defers, paInit, mp3File, pcmWriter, stream,
                 cbVars, rlVars, regVars, hVars>>

\* -------------------------------------------------------- Recording Session
Push(s, d) == [defers EXCEPT ![s] = <<d>> \o @]

\* portaudio.Initialize(); defer portaudio.Terminate();
\* mp3File, _ := os.Create(...); defer mp3File.Close()
\* (neither error is looked at, so there is no way out between the two)
paInitialize(s) ==
  /\ sessPc[s] = "Initialize"
  /\ paInit' = paInit + 1
  /\ mp3File' = [mp3File EXCEPT ![s] = "open"]
  /\ defers' = [defers EXCEPT ![s] = <<"mp3File.Close", "Terminate">> \o @]
  /\ sessPc' = [sessPc EXCEPT ![s] = "NewWriter"]
  /\ UNCHANGED <<statusVars, audioStreamer, pcmWriter, stream,
                 cbVars, rlVars, regVars, hVars>>

\* the same two statements when os.Create fails: mp3File is nil, its error is
\* dropped by the blank identifier and the function goes on
osCreateFails(s) ==
  /\ sessPc[s] = "Initialize"
  /\ paInit' = paInit + 1
  /\ mp3File' = [mp3File EXCEPT ![s] = "nil"]
  /\ defers' = [defers EXCEPT ![s] = <<"mp3File.Close", "Terminate">> \o @]
  /\ sessPc' = [sessPc EXCEPT ![s] = "NewWriter"]
  /\ UNCHANGED <<statusVars, audioStreamer, pcmWriter, stream,
                 cbVars, rlVars, regVars, hVars>>

\* io.Pipe, io.MultiWriter, lame.NewWriter succeed; defer pcmWriter.Close()
lameNewWriter(s) ==
  /\ sessPc[s] = "NewWriter"
  /\ pcmWriter' = [pcmWriter EXCEPT ![s] = "open"]
  /\ defers' = Push(s, "pcmWriter.Close")
  /\ sessPc' = [sessPc EXCEPT ![s] = "OpenStream"]
  /\ UNCHANGED <<statusVars, audioStreamer, paInit, mp3File, stream,
                 cbVars, rlVars, regVars, hVars>>

\* lame.NewWriter fails: return
lameNewWriterFails(s) ==
  /\ sessPc[s] = "NewWriter"
  /\ sessPc' = [sessPc EXCEPT ![s] = "return"]
  /\ UNCHANGED <<statusVars, audioStreamer, defers, paInit, mp3File, pcmWriter, stream,
                 cbVars, rlVars, regVars, hVars>>

\* portaudio.OpenDefaultStream succeeds
OpenDefaultStream(s) ==
  /\ sessPc[s] = "OpenStream"
  /\ stream' = [stream EXCEPT ![s] = "open"]
  /\ sessPc' = [sessPc EXCEPT ![s] = "Start"]
  /\ UNCHANGED <<statusVars, audioStreamer, defers, paInit, mp3File, pcmWriter,
                 cbVars, rlVars, regVars, hVars>>

\* portaudio.OpenDefaultStream fails: return
OpenDefaultStreamFails(s) ==
  /\ sessPc[s] = "OpenStream"
  /\ sessPc' = [sessPc EXCEPT ![s] = "return"]
  /\ UNCHANGED <<statusVars, audioStreamer, defers, paInit, mp3File, pcmWriter, stream,
                 cbVars, rlVars, regVars, hVars>>

\* what a successful stream.Start() is followed by: defer stream.Close()
StartDefers(s) == Push(s, "stream.Close")

\* stream.Start() succeeds; defer stream.Close()
streamStart(s) ==
  /\ sessPc[s] = "Start"
  /\ stream' = [stream EXCEPT ![s] = "started"]
  /\ defers' = StartDefers(s)
  /\ sessPc' = [sessPc EXCEPT ![s] = "SetFile"]
  /\ UNCHANGED <<statusVars, audioStreamer, paInit, mp3File, pcmWriter,
                 cbVars, rlVars, regVars, hVars>>

\* stream.Start() fails: return (defer stream.Close() has not been reached)
streamStartFails(s) ==
  /\ sessPc[s] = "Start"
  /\ sessPc' = [sessPc EXCEPT ![s] = "return"]
  /\ UNCHANGED <<statusVars, audioStreamer, defers, paInit, mp3File, pcmWriter, stream,
                 cbVars, rlVars, regVars, hVars>>

\* globalStatus.AudioRecordingFile = mp3FileName
setRecordingFile(s) ==
  /\ sessPc[s] = "SetFile"
  /\ AudioRecordingFile' = s
  /\ sessPc' = [sessPc EXCEPT ![s] = "NewStreamer"]
  /\ UNCHANGED <<AudioRecordingEnabled, AudioRecordingLoundness, audioStreamer,
                 defers, paInit, mp3File, pcmWriter, stream,
                 cbVars, rlVars, regVars, hVars>>

\* audioStreamer = new(streamer) and its Input, ReadBuff, QueueSize, WriteBuff
newStreamer(s) ==
  /\ sessPc[s] = "NewStreamer"
  /\ audioStreamer' = s
  /\ stState' = [stState EXCEPT ![s] = "new"]
  /\ sessPc' = [sessPc EXCEPT ![s] = "init"]
  /\ UNCHANGED <<statusVars, defers, paInit, mp3File, pcmWriter, stream,
                 cbVars, rlVars, clients, sid, chans, hVars>>

\* audioStreamer.init() (it always returns nil), then the call of readLoop()
streamerInit(s) ==
  /\ sessPc[s] = "init"
  /\ stState' = [stState EXCEPT ![s] = "init"]
  /\ clients' = [clients EXCEPT ![s] = {}]
  /\ rlPc' = [rlPc EXCEPT ![s] = "check"]
  /\ sessPc' = [sessPc EXCEPT ![s] = "readLoop"]
  /\ UNCHANGED <<statusVars, audioStreamer, defers, paInit, mp3File, pcmWriter, stream,
                 cbVars, buffer, todo, sid, chans, hVars>>

\* ------------------------------------------------------- capture callback
\* func(in []int16): the loudness write, then binary.Write(pcmWriter, ...):
\* the encoder emits a chunk into the MultiWriter, whose first writer is the
\* pipe.  The callback now waits in mp3PipeWriter.Write for a reader; once
\* the chunk is read, it is written to mp3File and the callback returns.
captureCallback(s) ==
  /\ stream[s] = "started"
  /\ ~pipe[s]
  /\ pcmWriter[s] \in {"open", "fed"}
  /\ produced < MaxChunks
  /\ \E in \in SampleBuffers : AudioRecordingLoundness' = loudness(in)
  /\ pcmWriter' = [pcmWriter EXCEPT ![s] = "fed"]
  /\ produced' = produced + 1
  /\ pipe' = [pipe EXCEPT ![s] = TRUE]
  /\ UNCHANGED <<AudioRecordingEnabled, AudioRecordingFile, audioStreamer,
                 sessPc, defers, paInit, mp3File, stream, pcm, rlVars, regVars, hVars>>

\* ---------------------------------------------------------------- Read Loop
\* a loop that does not look at the flag: every iteration goes on to read
readLoopCheckIgnoresFlag(s) ==
  /\ rlPc[s] = "check"
  /\ rlPc' = [rlPc EXCEPT ![s] = "read"]
  /\ UNCHANGED <<statusVars, audioStreamer, sessVars, cbVars, buffer, todo, regVars, hVars>>

\* if !globalSettings.AudioRecordingEnabled { return }  (defer close(s.Stop));
\* readLoop returns into initPortAudio
readLoopCheck(s) ==
  /\ rlPc[s] = "check"
  /\ IF AudioRecordingEnabled
       THEN /\ rlPc' = [rlPc EXCEPT ![s] = "read"]
            /\ UNCHANGED <<sessPc, buffer>>
       ELSE /\ rlPc' = [rlPc EXCEPT ![s] = "done"]
            /\ buffer' = [buffer EXCEPT ![s] = 0]
            /\ sessPc' = [sessPc EXCEPT ![s] = "cleanup"]
  /\ UNCHANGED <<statusVars, audioStreamer, defers, paInit, mp3File, pcmWriter, stream,
                 cbVars, todo, regVars, hVars>>

\* a mp3PipeWriter.Write is blocked, offering bytes to the reader: the
\* callback's, or else the residual frames of a pcmWriter.Close() in progress
PipeOffer(s) == pipe[s] \/ sessPc[s] = "flush"

\* io.ReadFull(s.Input, buffer) takes the chunk a pipe writer offers and that
\* writer's Write returns; then s.send(buffer): s.RLock() and the range over
\* s.clients begins
readLoopRead(s) ==
  /\ rlPc[s] = "read"
  /\ PipeOffer(s)
  /\ buffer' = [buffer EXCEPT ![s] = @ + 1]
  /\ IF pipe[s]
       THEN /\ pipe' = [pipe EXCEPT ![s] = FALSE]
            /\ UNCHANGED <<sessPc, pcmWriter>>
       ELSE /\ sessPc' = [sessPc EXCEPT ![s] = "return"]
            /\ pcmWriter' = [pcmWriter EXCEPT ![s] = "closed"]
            /\ UNCHANGED pipe
  /\ todo' = [todo EXCEPT ![s] = clients[s]]
  /\ rlPc' = [rlPc EXCEPT ![s] = "iter"]
  /\ UNCHANGED <<statusVars, audioStreamer, defers, paInit, mp3File, stream,
                 produced, pcm, regVars, hVars>>

\* a read error that is not taken as the end: the partial buffer goes to send()
readLoopReadFailsSends(s) ==
  /\ rlPc[s] = "read"
  /\ todo' = [todo EXCEPT ![s] = clients[s]]
  /\ rlPc' = [rlPc EXCEPT ![s] = "iter"]
  /\ UNCHANGED <<statusVars, audioStreamer, sessVars, cbVars, buffer, regVars, hVars>>

\* io.ReadFull(s.Input, buffer) returns an error (s.Input gave fewer than
\* ReadBuff bytes and then an error or the end of the stream):
\* log.Printf, return (defer close(s.Stop)); readLoop returns into initPortAudio
readLoopReadFails(s) ==
  /\ rlPc[s] = "read"
  /\ rlPc' = [rlPc EXCEPT ![s] = "done"]
  /\ buffer' = [buffer EXCEPT ![s] = 0]
  /\ sessPc' = [sessPc EXCEPT ![s] = "cleanup"]
  /\ UNCHANGED <<statusVars, audioStreamer, defers, paInit, mp3File, pcmWriter, stream,
                 cbVars, todo, regVars, hVars>>

\* -------------------------------------------------------- Fan-out Registry
\* the RWMutex of streamer s is free of readers (writers hold it within one step)
NoReader(s) == rlPc[s] # "iter"

\* chunks for which send() has taken the RLock
LastSent(s) == buffer[s]

\* a send into a channel that holds one chunk more than QueueSize
TrySendDeeper(q, b) == IF Len(q) < QueueSize + 1 THEN Append(q, b) ELSE q

\* a send that never gives up: the chunk is enqueued whatever the buffer holds
TrySendAlways(q, b) == Append(q, b)

\* a send that gives up one slot early
TrySendEarlyDrop(q, b) == IF Len(q) < QueueSize - 1 THEN Append(q, b) ELSE q

\* select { case v <- b: default: } on a channel with buffer q
TrySend(q, b) == IF Len(q) < QueueSize THEN Append(q, b) ELSE q

\* one iteration of send()'s range loop on channel c
Select(c, b) ==
  [c EXCEPT !.buf = TrySend(c.buf, b),
            !.full = c.full \/ Len(c.buf) >= QueueSize]

\* one iteration of the range loop, in the map's arbitrary order
sendSelect(s) ==
  /\ rlPc[s] = "iter"
  /\ \E i \in todo[s] :
       IF chans[s][i].closed
         THEN /\ rlPc' = [rlPc EXCEPT ![s] = "panic"]   \* send on closed channel
              /\ UNCHANGED <<chans, todo>>
         ELSE /\ chans' = [chans EXCEPT ![s][i] = Select(@, buffer[s])]
              /\ todo' = [todo EXCEPT ![s] = @ \ {i}]
              /\ UNCHANGED rlPc
  /\ UNCHANGED <<statusVars, audioStreamer, sessVars, cbVars, buffer,
                 stState, clients, sid, hVars>>

\* the range loop is over: s.RUnlock(), send returns, the next iteration of readLoop
sendRUnlock(s) ==
  /\ rlPc[s] = "iter"
  /\ todo[s] = {}
  /\ rlPc' = [rlPc EXCEPT ![s] = "check"]
  /\ UNCHANGED <<statusVars, audioStreamer, sessVars, cbVars, buffer, todo, regVars, hVars>>

\* ------------------------------------------- Recording Session: the way out
\* // cleanup: the Status Snapshot is reset, then the function returns
cleanup(s) ==
  /\ sessPc[s] = "cleanup"
  /\ AudioRecordingFile' = NoFile
  /\ AudioRecordingLoundness' = ZeroLoudness
  /\ sessPc' = [sessPc EXCEPT ![s] = "return"]
  /\ UNCHANGED <<AudioRecordingEnabled, audioStreamer, defers, paInit, mp3File,
                 pcmWriter, stream, cbVars, rlVars, regVars, hVars>>

\* the deferred call that runs next in a returning initPortAudio
Deferred(s, d) == sessPc[s] = "return" /\ defers[s] # <<>> /\ Head(defers[s]) = d
Pop(s) == [defers EXCEPT ![s] = Tail(@)]

\* deferred stream.Close(): no callback is invoked any more
streamClose(s) ==
  /\ Deferred(s, "stream.Close")
  /\ stream' = [stream EXCEPT ![s] = "closed"]
  /\ defers' = Pop(s)
  /\ UNCHANGED <<statusVars, audioStreamer, sessPc, paInit, mp3File, pcmWriter,
                 cbVars, rlVars, regVars, hVars>>

\* deferred pcmWriter.Close(): an encoder that was fed flushes its residual
\* frames into the MultiWriter, that is first into mp3PipeWriter.Write
pcmWriterClose(s) ==
  /\ Deferred(s, "pcmWriter.Close")
  /\ defers' = Pop(s)
  /\ IF pcmWriter[s] = "fed"
       THEN /\ sessPc' = [sessPc EXCEPT ![s] = "flush"]
            /\ UNCHANGED pcmWriter
       ELSE /\ pcmWriter' = [pcmWriter EXCEPT ![s] = "closed"]
            /\ UNCHANGED sessPc
  /\ UNCHANGED <<statusVars, audioStreamer, paInit, mp3File, stream,
                 cbVars, rlVars, regVars, hVars>>

\* deferred mp3File.Close() (on a nil *os.File it returns an error)
mp3FileClose(s) ==
  /\ Deferred(s, "mp3File.Close")
  /\ mp3File' = [mp3File EXCEPT ![s] = IF @ = "nil" THEN @ ELSE "closed"]
  /\ defers' = Pop(s)
  /\ UNCHANGED <<statusVars, audioStreamer, sessPc, paInit, pcmWriter, stream,
                 cbVars, rlVars, regVars, hVars>>

\* deferred portaudio.Terminate()
paTerminate(s) ==
  /\ Deferred(s, "Terminate")
  /\ paInit' = paInit - 1
  /\ defers' = Pop(s)
  /\ UNCHANGED <<statusVars, audioStreamer, sessPc, mp3File, pcmWriter, stream,
                 cbVars, rlVars, regVars, hVars>>

\* every deferred call has run: the goroutine ends
sessionReturn(s) ==
  /\ sessPc[s] = "return"
  /\ defers[s] = <<>>
  /\ sessPc' = [sessPc EXCEPT ![s] = "returned"]
  /\ UNCHANGED <<statusVars, audioStreamer, defers, paInit, mp3File, pcmWriter, stream,
                 cbVars, rlVars, regVars, hVars>>

\* ------------------------------------------------- Stream Delivery Handler
\* a delClient that closes the channel and leaves it in the map
DeleteNothing(cl, id) == cl

\* delete(s.clients, id)
Delete(cl, id) == cl \ {id}

\* an allocator that hands out the lowest identity not in the map
NextIdLowestFree(s) ==
  CHOOSE i \in Ids : i \notin clients[s] /\ \A j \in Ids : j \notin clients[s] => i <= j

\* s.id++: the identity addClient hands out
NextId(s) == sid[s] + 1

\* id, recieve := audioStreamer.addClient()
\* A nil audioStreamer, or one whose clients map init() has not made yet,
\* panics; net/http recovers the panic and the handler is over.
addClient(h) ==
  /\ hPc[h] = "idle"
  /\ \A g \in Handlers : g < h => hPc[g] # "idle"   \* connections are numbered as they arrive
  /\ IF audioStreamer = NilStreamer
       THEN /\ hPc' = [hPc EXCEPT ![h] = "addPanic"]
            /\ UNCHANGED <<sid, clients, chans, hSt, hId, hFrom, lastRecv>>
       ELSE LET s == audioStreamer IN
            /\ NoReader(s)
            /\ sid' = [sid EXCEPT ![s] = NextId(s)]
            /\ IF stState[s] = "init"
                 THEN /\ clients' = [clients EXCEPT ![s] = @ \cup {NextId(s)}]
                      /\ chans' = [chans EXCEPT ![s][NextId(s)] = NewChan]
                      /\ hSt' = [hSt EXCEPT ![h] = s]
                      /\ hId' = [hId EXCEPT ![h] = NextId(s)]
                      /\ hFrom' = [hFrom EXCEPT ![h] = LastSent(s)]
                      /\ lastRecv' = [lastRecv EXCEPT ![h] = LastSent(s)]
                      /\ hPc' = [hPc EXCEPT ![h] = "defer"]
                 ELSE /\ hPc' = [hPc EXCEPT ![h] = "addPanic"]
                      /\ UNCHANGED <<clients, chans, hSt, hId, hFrom, lastRecv>>
  /\ UNCHANGED <<statusVars, audioStreamer, sessVars, cbVars, rlVars, stState, hDel, gone>>

\* defer audioStreamer.delClient(id): the receiver is evaluated now.  Then the
\* response headers and the 10-byte head go into the 32768-byte bufio.Writer.
deferDelClient(h) ==
  /\ hPc[h] = "defer"
  /\ hDel' = [hDel EXCEPT ![h] = audioStreamer]
  /\ hPc' = [hPc EXCEPT ![h] = "recv"]
  /\ UNCHANGED <<statusVars, audioStreamer, sessVars, cbVars, rlVars, regVars,
                 hSt, hId, hFrom, lastRecv, gone>>

\* chunk := <-recieve can proceed: a chunk is buffered, or the channel is closed
CanReceive(h) ==
  /\ hPc[h] = "recv"
  /\ chans[hSt[h]][hId[h]].buf # <<>> \/ chans[hSt[h]][hId[h]].closed

\* a channel that hands out its newest element first
ReceiveNewest(h) ==
  /\ chans' = [chans EXCEPT ![hSt[h]][hId[h]].buf =
                 IF @ = <<>> THEN @ ELSE SubSeq(@, 1, Len(@) - 1)]
  /\ lastRecv' = [lastRecv EXCEPT ![h] =
                    IF chans[hSt[h]][hId[h]].buf = <<>> THEN @
                    ELSE chans[hSt[h]][hId[h]].buf[Len(chans[hSt[h]][hId[h]].buf)]]

\* chunk := <-recieve (nil from a closed and drained channel); what it leaves
Receive(h) ==
  /\ chans' = [chans EXCEPT ![hSt[h]][hId[h]].buf = IF @ = <<>> THEN @ ELSE Tail(@)]
  /\ lastRecv' = [lastRecv EXCEPT ![h] =
                    IF chans[hSt[h]][hId[h]].buf = <<>> THEN @
                    ELSE Head(chans[hSt[h]][hId[h]].buf)]

\* one iteration of the handler's loop: receive, buffw.Write(chunk) succeeds
deliver(h) ==
  /\ CanReceive(h)
  /\ Receive(h)
  /\ UNCHANGED <<statusVars, audioStreamer, sessVars, cbVars, rlVars,
                 stState, clients, sid, hPc, hSt, hId, hDel, hFrom, gone>>

\* one iteration of the handler's loop: receive, buffw.Write(chunk) fails: return
deliverFails(h) ==
  /\ CanReceive(h)
  /\ Receive(h)
  /\ hPc' = [hPc EXCEPT ![h] = "exit"]
  /\ UNCHANGED <<statusVars, audioStreamer, sessVars, cbVars, rlVars,
                 stState, clients, sid, hSt, hId, hDel, hFrom, gone>>

\* the deferred delClient(id) on the streamer the defer bound:
\* close(s.clients[id]); delete(s.clients, id).  For an identity that is not
\* in the map s.clients[id] is nil, and close(nil) panics.
delClient(h) ==
  /\ hPc[h] = "exit"
  /\ NoReader(hDel[h])
  /\ IF hId[h] \in clients[hDel[h]]
       THEN /\ chans' = [chans EXCEPT ![hDel[h]][hId[h]].closed = TRUE]
            /\ clients' = [clients EXCEPT ![hDel[h]] = Delete(@, hId[h])]
            /\ hPc' = [hPc EXCEPT ![h] = "done"]
       ELSE /\ hPc' = [hPc EXCEPT ![h] = "delPanic"]
            /\ UNCHANGED <<chans, clients>>
  /\ UNCHANGED <<statusVars, audioStreamer, sessVars, cbVars, rlVars,
                 stState, sid, hSt, hId, hDel, hFrom, lastRecv, gone>>

\* the network peer of connection h goes away; the handler has no statement
\* that looks at the connection other than the writes to it
peerDisconnects(h) ==
  /\ hPc[h] \in {"defer", "recv"}
  /\ h \notin gone
  /\ gone' = gone \cup {h}
  /\ UNCHANGED <<statusVars, audioStreamer, sessVars, cbVars, rlVars, regVars,
                 hPc, hSt, hId, hDel, hFrom, lastRecv>>

\* globalStatus.AudioRecordingLoundness = loudness(&in), for any buffer in
loudnessCall ==
  /\ \E b \in MeterBuffers :
       /\ pcm' = b
       /\ AudioRecordingLoundness' = loudness(b)
  /\ UNCHANGED <<AudioRecordingEnabled, AudioRecordingFile, audioStreamer, sessVars,
                 pipe, produced, rlVars, regVars, hVars>>

\* ------------------------------------------------------------ specification
Session(s) ==
  \/ paInitialize(s)
  \/ lameNewWriter(s) \/ lameNewWriterFails(s)
  \/ OpenDefaultStream(s) \/ OpenDefaultStreamFails(s)
  \/ streamStart(s) \/ streamStartFails(s)
  \/ setRecordingFile(s) \/ newStreamer(s) \/ streamerInit(s)
  \/ cleanup(s)
  \/ streamClose(s) \/ pcmWriterClose(s) \/ mp3FileClose(s) \/ paTerminate(s)
  \/ sessionReturn(s)

readLoop(s) ==
  \/ readLoopCheck(s) \/ readLoopRead(s)
  \/ sendSelect(s) \/ sendRUnlock(s)

handleAudioStream(h) ==
  \/ addClient(h) \/ deferDelClient(h) \/ deliver(h) \/ deliverFails(h) \/ delClient(h)

\* the whole program with one stream connection
Next ==
  \/ SetRecordingEnabled
  \/ initAudio
  \/ \E s \in Sessions : Session(s)
  \/ \E s \in Sessions : captureCallback(s)
  \/ \E s \in Sessions : readLoop(s)
  \/ handleAudioStream(1)

Spec == Init /\ [][Next]_vars

\* the Supervisor, the Sessions, their callbacks and Read Loops, with no
\* stream connection: s.clients stays empty and send()'s range loop has no
\* iteration
LifecycleNext ==
  \/ SetRecordingEnabled
  \/ initAudio
  \/ \E s \in Sessions : Session(s)
  \/ \E s \in Sessions : captureCallback(s)
  \/ \E s \in Sessions : readLoopCheck(s) \/ readLoopRead(s) \/ sendRUnlock(s)

LifecycleSpec == Init /\ [][LifecycleNext]_vars

\* The lifecycle when the recording file may fail to be created.
SetupNext ==
  \/ LifecycleNext
  \/ \E s \in Sessions : osCreateFails(s)

SetupSpec == Init /\ [][SetupNext]_vars

\* The Fan-out Registry of one Session at work.  RegistryInit is the state
\* initPortAudio is in when the first Session calls readLoop() with recording
\* enabled, and recording stays enabled: the capture callback, the Read Loop
\* and the stream connections run.
RegistryInit ==
  /\ AudioRecordingEnabled = TRUE
  /\ AudioRecordingFile = 1
  /\ AudioRecordingLoundness = ZeroLoudness
  /\ audioStreamer = 1
  /\ sessPc = [s \in Sessions |-> IF s = 1 THEN "readLoop" ELSE "idle"]
  /\ defers = [s \in Sessions |->
                 IF s = 1 THEN <<"stream.Close", "pcmWriter.Close", "mp3File.Close", "Terminate">>
                 ELSE <<>>]
  /\ paInit = 1
  /\ mp3File = [s \in Sessions |-> IF s = 1 THEN "open" ELSE "none"]
  /\ pcmWriter = [s \in Sessions |-> IF s = 1 THEN "open" ELSE "none"]
  /\ stream = [s \in Sessions |-> IF s = 1 THEN "started" ELSE "none"]
  /\ pipe = [s \in Sessions |-> FALSE]
  /\ produced = 0
  /\ pcm = <<>>
  /\ rlPc = [s \in Sessions |-> IF s = 1 THEN "check" ELSE "none"]
  /\ buffer = [s \in Sessions |-> 0]
  /\ todo = [s \in Sessions |-> {}]
  /\ stState = [s \in Sessions |-> IF s = 1 THEN "init" ELSE "none"]
  /\ clients = [s \in Sessions |-> {}]
  /\ sid = [s \in Sessions |-> 0]
  /\ chans = [s \in Sessions |-> [i \in Ids |-> NewChan]]
  /\ hPc = [h \in Handlers |-> "idle"]
  /\ hSt = [h \in Handlers |-> 0]
  /\ hId = [h \in Handlers |-> 0]
  /\ hDel = [h \in Handlers |-> 0]
  /\ hFrom = [h \in Handlers |-> 0]
  /\ lastRecv = [h \in Handlers |-> 0]
  /\ gone = {}

RegistryNext ==
  \/ captureCallback(1)
  \/ readLoop(1)
  \/ \E h \in Handlers : handleAudioStream(h)

RegistrySpec == RegistryInit /\ [][RegistryNext]_vars

\* The streamer over an Input (an io.Reader) whose reads may fail.
ReadLoopNext ==
  \/ RegistryNext
  \/ readLoopReadFails(1)

ReadLoopSpec == RegistryInit /\ [][ReadLoopNext]_vars

\* The streamer and its handlers when recording may be disabled and peers
\* may disconnect.
DisconnectNext ==
  \/ RegistryNext
  \/ SetRecordingEnabled
  \/ \E h \in Handlers : peerDisconnects(h)

DisconnectSpec == RegistryInit /\ [][DisconnectNext]_vars

\* The Loudness Meter alone, applied to every buffer of MeterBuffers.
LoudnessNext == loudnessCall

LoudnessSpec == Init /\ [][LoudnessNext]_vars

\* -------------------------------------------------------------- properties
Streaming(s) == rlPc[s] \in {"check", "read", "iter"}
Chan(h) == chans[hSt[h]][hId[h]]
Subscribed(h) == hPc[h] \in {"defer", "recv", "exit"} /\ hId[h] \in clients[hSt[h]]

\* the step is one iteration of send()'s range loop of streamer s on identity i
SelectStep(s, i) == rlPc[s] = "iter" /\ i \in todo[s] /\ i \notin todo'[s]

\* C1: broadcast never blocks and never fails.  Every iteration of send()
\* leaves a full queue as it is, appends the chunk to a queue that is not
\* full and touches no other queue; send() never panics, and while it runs
\* its next step (another iteration, or the return) is always possible.
C1_SendNeverBlocks ==
  /\ [][\A s \in Sessions : \A i \in Ids :
          SelectStep(s, i) =>
            /\ chans'[s][i].buf =
                 IF Len(chans[s][i].buf) = QueueSize THEN chans[s][i].buf
                 ELSE Append(chans[s][i].buf, buffer[s])
            /\ Len(chans'[s][i].buf) <= QueueSize
            /\ \A j \in Ids \ {i} : chans'[s][j] = chans[s][j]
            /\ rlPc'[s] = "iter"]_vars
  /\ [](\A s \in Sessions :
          /\ rlPc[s] # "panic"
          /\ rlPc[s] = "iter" => ENABLED (sendSelect(s) \/ sendRUnlock(s)))

\* a send() has just visited every client: it skipped one whose queue was
\* full and gave the chunk to another
C1_Witness ==
  \E s \in Sessions : \E i, j \in clients[s] :
    /\ rlPc[s] = "iter" /\ todo[s] = {}
    /\ i # j
    /\ chans[s][i].full /\ Len(chans[s][i].buf) = QueueSize
    /\ buffer[s] \notin {chans[s][i].buf[k] : k \in 1..QueueSize}
    /\ chans[s][j].buf # <<>>
    /\ chans[s][j].buf[Len(chans[s][j].buf)] = buffer[s]

\* chunks send() has offered to identity i of streamer s
Offered(s, i) == IF rlPc[s] = "iter" /\ i \in todo[s] THEN buffer[s] - 1 ELSE buffer[s]

\* C2: a subscriber registered before the first broadcast whose queue was
\* never found full has dequeued chunks 1..lastRecv in order, and its queue
\* holds exactly the chunks after them that were broadcast, in order: no
\* loss, no duplication, no reordering.
C2_FanOut ==
  \A h \in Handlers :
    (Subscribed(h) /\ Streaming(hSt[h]) /\ hFrom[h] = 0 /\ ~Chan(h).full) =>
      /\ lastRecv[h] + Len(Chan(h).buf) = Offered(hSt[h], hId[h])
      /\ \A k \in 1..Len(Chan(h).buf) : Chan(h).buf[k] = lastRecv[h] + k

\* every connection subscribed before the first broadcast, no queue was ever
\* full, and every subscriber has dequeued all MaxChunks chunks
C2_Witness ==
  \A h \in Handlers :
    /\ hPc[h] = "recv" /\ Subscribed(h) /\ hFrom[h] = 0 /\ ~Chan(h).full
    /\ lastRecv[h] = MaxChunks
    /\ buffer[hSt[h]] = MaxChunks

\* C3: send() never meets a closed channel, and no step enqueues into a
\* channel that delClient has closed.
C3_NoSendAfterClose ==
  /\ [][\A s \in Sessions : \A i \in Ids :
          chans[s][i].closed =>
            /\ chans'[s][i].closed
            /\ Len(chans'[s][i].buf) <= Len(chans[s][i].buf)]_vars
  /\ [](\A s \in Sessions :
          /\ rlPc[s] # "panic"
          /\ \A i \in Ids : chans[s][i].closed => i \notin clients[s] /\ i \notin todo[s])

\* a connection has unsubscribed, and chunks were broadcast afterwards: its
\* queue was never full, yet it neither dequeued nor holds the last chunk
C3_Witness ==
  \E h \in Handlers :
    /\ hPc[h] = "done" /\ Chan(h).closed /\ ~Chan(h).full
    /\ hFrom[h] = 0
    /\ rlPc[hSt[h]] = "check"
    /\ lastRecv[h] + Len(Chan(h).buf) < buffer[hSt[h]]
    /\ \E g \in Handlers : g # h /\ Subscribed(g) /\ hSt[g] = hSt[h] /\ Chan(g).buf # <<>>

\* C4: delClient for an identity that is not in the registry is a no-op that
\* does not fault.
C4_DelClientAbsentIsNoOp == \A h \in Handlers : hPc[h] # "delPanic"

Active(s) == sessPc[s] \notin {"idle", "returned"}

\* C5: at most one initPortAudio run is between its start and its return.
C5_AtMostOneSession == Cardinality({s \in Sessions : Active(s)}) <= 1

\* C6: a step that spawns a Session is taken only with recording enabled and
\* an empty status file name.
C6_SpawnOnlyWhenNotRecording ==
  [][(\E s \in Sessions : sessPc[s] = "idle" /\ sessPc'[s] # "idle") =>
       (AudioRecordingEnabled /\ AudioRecordingFile = NoFile)]_vars

\* recording is enabled, a Session has set the status file name and runs its
\* Read Loop, and the Supervisor has started no other Session
C6_Witness ==
  \E s \in Sessions :
    /\ AudioRecordingEnabled /\ AudioRecordingFile = s /\ sessPc[s] = "readLoop"
    /\ \E r \in Sessions : sessPc[r] = "idle"
    /\ \A r \in Sessions \ {s} : sessPc[r] = "idle"

\* the Session has reset the Status Snapshot after its Read Loop ended
HasReset(s) == rlPc[s] = "done" /\ sessPc[s] \in {"return", "flush", "returned"}

\* C7: when a Session resets the Status Snapshot, it has stopped the device,
\* closed the encoder and closed the file.
C7_ResetAfterRelease ==
  \A s \in Sessions :
    HasReset(s) => stream[s] = "closed" /\ pcmWriter[s] = "closed" /\ mp3File[s] = "closed"

\* C8: a Session whose Read Loop has ended has returned or can take its next
\* step.
C8_TeardownNeverStuck ==
  \A s \in Sessions :
    rlPc[s] = "done" => sessPc[s] = "returned" \/ ENABLED (Session(s) \/ readLoopRead(s))

\* C9: a capture callback is in mp3PipeWriter.Write only while the Read Loop
\* is in its read, ready to take the bytes.
C9_CallbackNeverBlocks == \A s \in Sessions : pipe[s] => rlPc[s] = "read"

\* C10: a Session that has returned holds no resource.
C10_ReleasedOnEveryExit ==
  \A s \in Sessions :
    sessPc[s] = "returned" =>
      /\ stream[s] \in {"none", "closed"}
      /\ pcmWriter[s] \in {"none", "closed"}
      /\ mp3File[s] \in {"none", "closed"}

\* a step of the initialisation of Session s has failed: the recording file
\* could not be created, or the function returned before it made the Registry
InitFailed(s) ==
  \/ mp3File[s] = "nil"
  \/ sessPc[s] \in {"return", "returned"} /\ stState[s] = "none"

\* C11: a Session one of whose initialisation steps failed never sets the
\* status file name and never starts its Read Loop.
C11_FailedInitAborts ==
  \A s \in Sessions :
    InitFailed(s) => AudioRecordingFile # s /\ rlPc[s] = "none" /\ audioStreamer # s

\* C12: once the Read Loop of a Session has exited and the status has been
\* reset, the status shows no file and zero loudness for as long as no other
\* Session has started; no capture callback of the ended Session writes a
\* loudness after the reset.
C12_ResetStays ==
  \A s \in Sessions :
    HasReset(s) /\ (\A r \in Sessions \ {s} : sessPc[r] = "idle") =>
      AudioRecordingFile = NoFile /\ AudioRecordingLoundness = ZeroLoudness

\* C13: the Read Loop broadcasts a chunk only after a read that filled the
\* buffer, and each such chunk once; a read that fails broadcasts nothing and
\* ends the loop, which then reads and broadcasts no more.
C13_BroadcastOnlyFullReads ==
  [][\A s \in Sessions :
       /\ \A i \in Ids :
            Len(chans'[s][i].buf) > Len(chans[s][i].buf) =>
              /\ rlPc[s] = "iter" /\ buffer[s] >= 1
              /\ chans'[s][i].buf = Append(chans[s][i].buf, buffer[s])
       /\ rlPc'[s] = "iter" /\ rlPc[s] # "iter" =>
            /\ rlPc[s] = "read" /\ PipeOffer(s)
            /\ buffer'[s] = buffer[s] + 1
            /\ ~pipe'[s]
       /\ rlPc[s] = "read" /\ rlPc'[s] \notin {"read", "iter"} =>
            rlPc'[s] = "done" /\ chans' = chans /\ pipe' = pipe
       /\ rlPc[s] = "done" => rlPc'[s] = "done"]_vars

\* a read has failed while recording was enabled, after chunks had been
\* delivered to a subscriber that is still registered: the loop is over
C13_Witness ==
  /\ rlPc[1] = "done" /\ AudioRecordingEnabled
  /\ \E h \in Handlers : Subscribed(h) /\ lastRecv[h] >= 1

\* C14: the enable flag is looked at only at the head of an iteration.  While
\* recording stays disabled no read is started: a read in progress may still
\* complete and its chunk be broadcast, the iteration check that follows
\* ends the loop, and a loop found at its check ends at once.
C14_DisableStopsAfterOneChunk ==
  [][\A s \in Sessions :
       ~AudioRecordingEnabled /\ ~AudioRecordingEnabled' =>
         /\ rlPc'[s] = "read" => rlPc[s] = "read"
         /\ rlPc[s] = "read" => rlPc'[s] \in {"read", "iter"}
         /\ rlPc[s] = "iter" => rlPc'[s] \in {"iter", "check"}
         /\ rlPc[s] = "check" => rlPc'[s] \in {"check", "done"}
         /\ rlPc[s] = "done" => rlPc'[s] = "done"]_vars

\* recording is disabled and the loop broadcasts the chunk of the read that
\* was in progress
C14_Witness ==
  \E s \in Sessions : ~AudioRecordingEnabled /\ rlPc[s] = "iter" /\ buffer[s] >= 1

\* C15: a Delivery Handler that has subscribed unsubscribes its own identity
\* on the Registry it subscribed to: the streamer its deferred delClient is
\* bound to is the streamer whose addClient gave it its identity.
C15_UnsubscribeOwnRegistry ==
  \A h \in Handlers :
    hPc[h] \in {"recv", "exit", "done", "delPanic"} => hDel[h] = hSt[h]

\* C16: when a subscriber's connection write has failed, the unsubscribe that
\* follows takes exactly that subscriber out of its Registry (one subscriber
\* fewer) and leaves every other Registry, identity and queue as it was.
C16_FailureRemovesOnlyThatSubscriber ==
  [][\A h \in Handlers :
       hPc[h] = "exit" /\ hPc'[h] # "exit" =>
         /\ hId[h] \in clients[hSt[h]]
         /\ clients' = [clients EXCEPT ![hSt[h]] = @ \ {hId[h]}]
         /\ Cardinality(clients'[hSt[h]]) = Cardinality(clients[hSt[h]]) - 1
         /\ \A s \in Sessions : \A i \in Ids :
              <<s, i>> # <<hSt[h], hId[h]>> => chans'[s][i] = chans[s][i]
         /\ chans'[hSt[h]][hId[h]].buf = chans[hSt[h]][hId[h]].buf]_vars

\* the chunks of q are in strictly increasing order
Increasing(q) == \A i, j \in 1..Len(q) : i < j => q[i] < q[j]

\* C17: what a subscriber dequeues is an order-preserving subsequence of the
\* chunks its Read Loop produced after it registered.  Every dequeue takes the
\* head of the queue, a chunk later than the last one dequeued and later than
\* the registration; the chunks waiting in the queue are in the order of
\* production, all after the last one dequeued, none beyond the last one the
\* running loop has produced.
C17_DequeuedInOrder ==
  /\ [][\A h \in Handlers :
          lastRecv'[h] # lastRecv[h] /\ hPc[h] = "recv" =>
            /\ Chan(h).buf # <<>>
            /\ lastRecv'[h] = Head(Chan(h).buf)
            /\ lastRecv'[h] > lastRecv[h] /\ lastRecv'[h] > hFrom[h]
            /\ chans'[hSt[h]][hId[h]].buf = Tail(Chan(h).buf)]_vars
  /\ [](\A h \in Handlers :
          hPc[h] \in {"defer", "recv", "exit"} =>
            /\ Increasing(Chan(h).buf)
            /\ hFrom[h] <= lastRecv[h]
            /\ \A k \in 1..Len(Chan(h).buf) : lastRecv[h] < Chan(h).buf[k]
            /\ Streaming(hSt[h]) =>
                 /\ lastRecv[h] <= buffer[hSt[h]]
                 /\ \A k \in 1..Len(Chan(h).buf) : Chan(h).buf[k] <= buffer[hSt[h]])

\* one subscriber has lost a chunk to a full queue and dequeued all that was
\* queued before it; another registered after the first chunk and has
\* dequeued a later one
C17_Witness ==
  \E h, g \in Handlers :
    /\ hPc[h] = "recv" /\ Chan(h).full /\ Chan(h).buf = <<>>
    /\ hFrom[h] = 0 /\ lastRecv[h] = QueueSize /\ buffer[hSt[h]] > QueueSize
    /\ hPc[g] = "recv" /\ hFrom[g] >= 1 /\ lastRecv[g] > hFrom[g]

\* the greatest sample of b as a signed number
SignedMax(b) ==
  CHOOSE m \in {b[k] : k \in 1..Len(b)} : \A k \in 1..Len(b) : b[k] <= m

\* C18: the Loudness Meter takes the greatest signed raw sample of the buffer,
\* not the greatest magnitude, and the value it stores is the decibel figure of
\* that sample; for the buffer [32767] the sample is 32767 and the value 0 dB,
\* for a buffer of zeros the sample is 0.
C18_LoudnessOfSignedMax ==
  pcm # <<>> =>
    /\ Amplitude(pcm) = SignedMax(pcm)
    /\ AudioRecordingLoundness = Decibel(SignedMax(pcm))
    /\ pcm = <<32767>> => Amplitude(pcm) = 32767 /\ AudioRecordingLoundness = "0"
    /\ (\A k \in 1..Len(pcm) : pcm[k] = 0) =>
         Amplitude(pcm) = 0 /\ AudioRecordingLoundness = "-Inf"

\* the meter was given a buffer whose greatest magnitude is not its greatest
\* sample: the sample selected is -1, of which the logarithm is not a number
C18_Witness == pcm = <<-32768, -1>> /\ AudioRecordingLoundness = "NaN"

\* C19: a subscriber whose peer has disconnected is eventually unsubscribed,
\* also when its Read Loop has exited and broadcasts no more: such a
\* subscriber is never left without a step to take towards its unsubscribe.
C19_DisconnectedIsUnsubscribed ==
  \A h \in gone :
    Subscribed(h) /\ rlPc[hSt[h]] = "done" => ENABLED handleAudioStream(h)

\* C20: in every reachable state no subscriber's queue holds more chunks than
\* the queue depth of its streamer, however slowly the subscriber drains it.
C20_QueueBounded ==
  \A s \in Sessions : \A i \in Ids : Len(chans[s][i].buf) <= QueueSize

\* a subscriber that has dequeued nothing: its queue is at the queue depth and
\* the Read Loop has broadcast chunks beyond it
C20_Witness ==
  \E h \in Handlers :
    /\ Subscribed(h) /\ lastRecv[h] = hFrom[h]
    /\ Len(Chan(h).buf) = QueueSize /\ Chan(h).full
    /\ buffer[hSt[h]] > hFrom[h] + QueueSize

\* connection h has been given an identity by addClient
Joined(h) == hPc[h] \in {"defer", "recv", "exit", "done", "delPanic"}

\* C21: within one Registry the identities addClient returns are strictly
\* increasing in the order of the calls and never reused, whatever the
\* interleaving of addClient and delClient: every call returns an identity
\* above every one handed out before, absent from the map, with a queue of
\* its own, and no two subscribers, live or removed, share an identity.
C21_IdentitiesNeverReused ==
  /\ [][\A h \in Handlers :
          hPc[h] = "idle" /\ hPc'[h] = "defer" =>
            LET s == hSt'[h]
                i == hId'[h]
            IN  /\ i > sid[s] /\ i = sid'[s]
                /\ i \notin clients[s] /\ clients'[s] = clients[s] \cup {i}
                /\ chans'[s][i] = NewChan
                /\ \A j \in Ids \ {i} : chans'[s][j] = chans[s][j]
                /\ \A g \in Handlers \ {h} :
                     Joined(g) /\ hSt[g] = s => hId[g] < i]_vars
  /\ [](\A h, g \in Handlers :
          Joined(h) /\ Joined(g) /\ hSt[h] = hSt[g] /\ h < g => hId[h] < hId[g])
  /\ [](\A s \in Sessions : \A i \in clients[s] : 1 <= i /\ i <= sid[s])

\* the first subscriber has been removed and a later one is registered: it
\* holds the next identity, not the one set free
C21_Witness ==
  /\ hPc[1] = "done" /\ hId[1] = 1 /\ chans[hSt[1]][1].closed
  /\ hPc[2] = "recv" /\ hSt[2] = hSt[1] /\ hId[2] = 2
  /\ clients[hSt[1]] = {2}

\* C22: whenever a Delivery Handler calls addClient, audioStreamer holds a
\* streamer and that streamer's init() has completed.
C22_SubscribeOnInitializedRegistry ==
  [][\A h \in Handlers :
       hPc[h] = "idle" /\ hPc'[h] # "idle" =>
         audioStreamer # NilStreamer /\ stState[audioStreamer] = "init"]_vars

====
